---- MODULE Spec2Model ----
(***************************************************************************)
(* Lending ledger and reminder engine of the media library bot.            *)
(*                                                                         *)
(*   bot.py + database.py : the media_items / rueckgabe_log ledger, the    *)
(*                          interaction handlers and the reminder loop     *)
(*   main.py              : the earlier single-file bot on the books table *)
(*                                                                         *)
(* Every await of a handler is a point where another task may run, so a    *)
(* handler is a sequence of steps, one per awaited statement.  The pool is *)
(* created with autocommit=True (database.py:24): every SQL statement is   *)
(* its own transaction and is visible as soon as it has run.               *)
(***************************************************************************)
EXTENDS Integers, Sequences, FiniteSets, TLC

(***************************************************************************)
(* Bounds of the model.                                                    *)
(***************************************************************************)
MaxDay == 3
MaxLog == 1
MaxLoops == 1
MaxNotified == 2
MaxInFlight == 1
MaxReady == 2
MaxPair == 2
MaxClock == 3
MaxExchanges == 4
MaxSearches == 2
MaxItems == 6
MaxAnswer == 2

(***************************************************************************)
(* Configuration values (config.py default_config, read with get_config).  *)
(* The model runs with a short loan period and a small cap.                *)
(***************************************************************************)
due_period_days == 2
remind_days_before == 1
max_loans_per_user == 2
enable_dm_reminders == TRUE

(***************************************************************************)
(* Inputs.                                                                 *)
(***************************************************************************)
Users == {1, 2}
Admin == 9
Slots == 1..MaxInFlight
Loops == 1..MaxLoops
ReadyLoops == 1..MaxReady
PairSlots == 1..MaxPair
Titles == {"T", "U"}
None == [none |-> TRUE]
SearchSlots == 1..MaxSearches
\* the providers that hand out bearer tokens: Spotify, and Twitch for IGDB
Providers == {"spotify", "igdb"}
\* tokens are numbered in the order the provider hands them out
NoToken == 0
\* the time a provider's token stays valid (expires_in of its answer)
TokenLifetime == 2

\* ISBN strings as typed by the user: sequences of characters.
Digits == {"0", "1", "2", "3", "4", "5", "6", "7", "8", "9"}
IsbnA == <<"0", "3", "0", "6", "4", "0", "6", "1", "5", "2">>
IsbnAHyphen == <<"0", "-", "3", "0", "6", "-", "4", "0", "6", "1", "5", "-", "2">>
IsbnB == <<"9", "7", "8", "0", "3", "0", "6", "4", "0", "6", "1", "5", "7">>
IsbnC == <<"0", "1", "9", "8", "5", "3", "4", "5", "3", "0">>
IsbnShort == <<"1", "2", "3">>
IsbnInputs == {IsbnAHyphen, IsbnB, IsbnC}
BookIds == {IsbnA, IsbnB, IsbnC}
MovieIds == {<<"1">>, <<"2">>}
MediaTypes == {"book", "movie"}
Ids(media_type) == IF media_type = "book" THEN BookIds ELSE MovieIds
Keys == {<<u, k, x>> : u \in Users, k \in MediaTypes, x \in BookIds \cup MovieIds}

\* str.strip(): whitespace removed at both ends
RECURSIVE lstrip(_)
lstrip(s) == IF s # <<>> /\ Head(s) = " " THEN lstrip(Tail(s)) ELSE s
RECURSIVE rstrip(_)
rstrip(s) ==
    IF s # <<>> /\ s[Len(s)] = " " THEN rstrip(SubSeq(s, 1, Len(s) - 1)) ELSE s
strip(s) == rstrip(lstrip(s))

\* str.replace("-", "")
RECURSIVE remove_hyphens(_)
remove_hyphens(s) ==
    IF s = <<>> THEN <<>>
    ELSE IF Head(s) = "-" THEN remove_hyphens(Tail(s))
    ELSE <<Head(s)>> \o remove_hyphens(Tail(s))

\* a normalisation that leaves the hyphens in
clean_isbn_strip_only(isbn) == strip(isbn)

\* isbn.strip().replace("-", "")
clean_isbn(isbn) == remove_hyphens(strip(isbn))

\* str.isdigit(): not empty and every character a digit
isdigit(s) == s # <<>> /\ \A i \in 1..Len(s) : s[i] \in Digits

\* a validator that lets every identifier pass
validate_isbn_any(isbn) == TRUE

\* database.py: APIHandler.validate_isbn
validate_isbn(isbn) ==
    isdigit(clean_isbn(isbn)) /\ Len(clean_isbn(isbn)) \in {10, 13}

VARIABLES
    media_items,    \* table media_items: set of rows
    rueckgabe_log,  \* table rueckgabe_log: sequence of rows, in insertion order
    today,          \* date.today(), as a day number
    task,           \* interaction handlers in flight, one per slot
    menus,          \* selection views sent and still usable
    loops,          \* ReminderTasks instances created by on_ready
    sweep,          \* remind_due_media iteration of each loop
    notified,       \* history: reminders delivered to the current loan of a key
    deleted,        \* history: keys of the rows DELETE statements removed
    reply,          \* the message the last step sent to a user, or None
    books,          \* main.py: table books
    books_log,      \* main.py: table rueckgabe_log
    now,            \* the clock the providers' tokens expire by
    token,          \* APIHandler.spotify_token, igdb_token; NoToken is None
    issued,         \* provider side: expiry time of each token handed out
    exchanges,      \* history: token requests sent to each provider
    search,         \* search_music, search_video_games calls in flight
    http,           \* the answer the last step received, or None
    request,        \* the providers the last lookup called, in order
    returned        \* the call the last step made and the value it returned

vars == <<media_items, rueckgabe_log, today, task, menus, loops, sweep,
          notified, deleted, reply, books, books_log,
          now, token, issued, exchanges, search, http, request, returned>>
apiVars == <<request, returned>>
tokenVars == <<now, token, issued, exchanges, search, http>>
botVars == <<media_items, rueckgabe_log, today, task, menus, loops, sweep,
             notified, deleted, reply, books, books_log>>
ledgerVars == <<media_items, rueckgabe_log, task, menus, loops, sweep,
                notified, deleted, reply>>
legacyVars == <<books, books_log>>

(***************************************************************************)
(* database.py: MediaRepository                                            *)
(***************************************************************************)
Key(r) == <<r.user_id, r.media_type, r.external_id>>

WithKey(items, user_id, media_type, external_id) ==
    {r \in items : /\ r.user_id = user_id
                   /\ r.media_type = media_type
                   /\ r.external_id = external_id}

\* INSERT of a row that ignores uq_user_media (a table without the unique key).
insert_plain(items, user_id, media_type, media_info, due_date) ==
    items \cup {[user_id |-> user_id, media_type |-> media_type,
                 external_id |-> media_info.external_id,
                 title |-> media_info.title,
                 due_date |-> due_date, reminded |-> FALSE]}

\* INSERT ... ON DUPLICATE KEY UPDATE that leaves reminded as it was.
upsert_keep_reminded(items, user_id, media_type, media_info, due_date) ==
    LET dup == WithKey(items, user_id, media_type, media_info.external_id)
    IN  IF dup = {}
        THEN insert_plain(items, user_id, media_type, media_info, due_date)
        ELSE (items \ dup) \cup
             {[r EXCEPT !.title = media_info.title, !.due_date = due_date] : r \in dup}

\* INSERT INTO media_items ... ON DUPLICATE KEY UPDATE title, ..., due_date,
\* reminded = FALSE.  The unique key uq_user_media is (user_id, media_type,
\* external_id); the display fields are modelled by title.
borrow_media(items, user_id, media_type, media_info, due_date) ==
    LET dup == WithKey(items, user_id, media_type, media_info.external_id)
    IN  IF dup = {}
        THEN items \cup {[user_id |-> user_id, media_type |-> media_type,
                          external_id |-> media_info.external_id,
                          title |-> media_info.title,
                          due_date |-> due_date, reminded |-> FALSE]}
        ELSE (items \ dup) \cup
             {[r EXCEPT !.title = media_info.title,
                        !.due_date = due_date,
                        !.reminded = FALSE] : r \in dup}

\* SELECT title FROM media_items WHERE user_id, media_type, external_id;
\* fetchone(): a row holding the title only, or None.
return_media_select(items, user_id, media_type, external_id) ==
    LET hit == WithKey(items, user_id, media_type, external_id)
    IN  IF hit = {} THEN None
        ELSE [title |-> (CHOOSE r \in hit : TRUE).title]

\* a DELETE whose WHERE clause leaves out external_id
return_media_delete_all(items, user_id, media_type, external_id) ==
    {r \in items : ~(r.user_id = user_id /\ r.media_type = media_type)}

\* a DELETE that leaves the user out of its WHERE
return_media_delete_any_user(items, user_id, media_type, external_id) ==
    {r \in items : ~(r.media_type = media_type /\ r.external_id = external_id)}

\* DELETE FROM media_items WHERE user_id, media_type, external_id
return_media_delete(items, user_id, media_type, external_id) ==
    items \ WithKey(items, user_id, media_type, external_id)

\* INSERT INTO rueckgabe_log (moderator_id, user_id, media_type, external_id, title)
\* VALUES (user_id, user_id, media_type, external_id, media["title"])
return_media_log(log, user_id, media_type, external_id, media) ==
    Append(log, [moderator_id |-> user_id, user_id |-> user_id,
                 media_type |-> media_type, external_id |-> external_id,
                 title |-> media.title])

\* a list that leaves the user's books out
get_user_media_movies(items, user_id) ==
    {r \in items : r.user_id = user_id /\ r.media_type = "movie"}

\* SELECT ... FROM media_items WHERE user_id = %s
get_user_media(items, user_id) == {r \in items : r.user_id = user_id}

\* the columns of the SELECT: title, due_date, media_type
UserRow(r) == [title |-> r.title, due_date |-> r.due_date,
               media_type |-> r.media_type]

\* the rows of the loans S, one per loan, in every order
RowLists(S) ==
    {[i \in 1..Cardinality(S) |-> UserRow(f[i])] :
        f \in {g \in [1..Cardinality(S) -> S] :
                 \A i, j \in 1..Cardinality(S) : g[i] = g[j] => i = j}}

\* WHERE user_id = %s [AND media_type = %s]; "" stands for no media_type
UserLoans(items, user_id, media_type) ==
    {r \in items : /\ r.user_id = user_id
                   /\ media_type # "" => r.media_type = media_type}

\* a SELECT without its ORDER BY: the rows in any order
get_user_media_unordered(items, user_id, media_type) ==
    RowLists(UserLoans(items, user_id, media_type))

\* MediaRepository.get_user_media: SELECT title, due_date, media_type ...
\* ORDER BY due_date; rows with equal due_date come in any order
get_user_media_rows(items, user_id, media_type) ==
    {l \in RowLists(UserLoans(items, user_id, media_type)) :
        \A i, j \in 1..Len(l) : i < j => l[i].due_date <= l[j].due_date}

\* a limit check that lets a user at the cap borrow once more
check_loan_limit_off_by_one(items, user_id) ==
    Cardinality(get_user_media(items, user_id)) <= max_loans_per_user

\* bot.py: MediaCommands._check_loan_limit
check_loan_limit(items, user_id) ==
    Cardinality(get_user_media(items, user_id)) < max_loans_per_user

(***************************************************************************)
(* database.py: ReminderRepository                                         *)
(***************************************************************************)
\* the columns a due row carries.  external_id is not selected; it is kept so
\* that the history variables can name the loan a row came from, and no
\* statement of the sweep reads it.
DueRow(r) ==
    [user_id |-> r.user_id, title |-> r.title, due_date |-> r.due_date,
     media_type |-> r.media_type, external_id |-> r.external_id]

\* a selection that takes only the loans due exactly on the reminder date
get_due_media_eq(items, reminder_date) ==
    {DueRow(r) : r \in {x \in items : x.reminded = FALSE
                                      /\ x.due_date = reminder_date}}

\* SELECT user_id, title, due_date, media_type FROM media_items
\* WHERE reminded = FALSE AND due_date <= reminder_date
get_due_media(items, reminder_date) ==
    {DueRow(r) : r \in {x \in items : x.reminded = FALSE
                                      /\ x.due_date <= reminder_date}}

\* a mark that also pushes the due date of the loans it marks on by a day
mark_media_reminded_extend(items, user_id, title, media_type) ==
    {IF r.user_id = user_id /\ r.title = title /\ r.media_type = media_type
     THEN [r EXCEPT !.reminded = TRUE, !.due_date = @ + 1] ELSE r : r \in items}

\* UPDATE media_items SET reminded = TRUE
\* WHERE user_id = %s AND title = %s AND media_type = %s
mark_media_reminded(items, user_id, title, media_type) ==
    {IF r.user_id = user_id /\ r.title = title /\ r.media_type = media_type
     THEN [r EXCEPT !.reminded = TRUE] ELSE r : r \in items}

(***************************************************************************)
(* Provider lookups, as far as the ledger sees them: what a lookup may     *)
(* return.                                                                 *)
(***************************************************************************)
\* the titles Google Books may give for an ISBN: IsbnA and IsbnB are two
\* editions with the same title, and the title of IsbnB changes over time
VolumeTitles(isbn) == IF isbn = IsbnB THEN {"T", "U"} ELSE {"T"}

\* fetch_book_by_isbn: None (status not 200, no items, exception), or the
\* first volume, keyed by the cleaned ISBN
fetch_book_by_isbn(isbn) ==
    {None} \cup {[external_id |-> clean_isbn(isbn), title |-> ti] :
                   ti \in VolumeTitles(clean_isbn(isbn))}

\* search_movies: None (no key, status not 200, exception), an empty list, or
\* up to five records
search_movies ==
    {None, <<>>,
     <<[external_id |-> <<"1">>, title |-> "T"],
       [external_id |-> <<"2">>, title |-> "T"]>>}

Min(a, b) == IF a < b THEN a ELSE b

\* results[:5]
first5(results) == SubSeq(results, 1, Min(Len(results), 5))

(***************************************************************************)
(* Interaction handlers (bot.py).  A handler in flight occupies a slot.    *)
(***************************************************************************)
IdleTask ==
    [op |-> "idle", pc |-> "idle", actor |-> 0, user_id |-> 0,
     media_type |-> "", arg |-> <<>>, info |-> None, media |-> None,
     result |-> None, call |-> 0]

Msg(tk, outcome, title) ==
    [op |-> tk.op, actor |-> tk.actor, arg |-> tk.arg, outcome |-> outcome,
     title |-> title]

RowCount(items, key) == Cardinality({r \in items : Key(r) = key})

\* MediaCommands._borrow_media, lines 171-190: the interaction arrives and the
\* limit is checked
BorrowMedia_limit(t, u, k, q) ==
    /\ task[t].pc = "idle"
    /\ LET tk == [IdleTask EXCEPT !.op = "borrow", !.actor = u, !.user_id = u,
                                  !.media_type = k, !.arg = q]
       IN  IF ~check_loan_limit(media_items, u)
           THEN /\ reply' = Msg(tk, "limit", "")
                /\ UNCHANGED task
           ELSE /\ task' = [task EXCEPT ![t] = [tk EXCEPT !.pc = "lookup"]]
                /\ reply' = None
    /\ UNCHANGED <<media_items, rueckgabe_log, today, menus, loops, sweep,
                   notified, deleted, books, books_log>>
    /\ UNCHANGED tokenVars
    /\ UNCHANGED apiVars

\* lines 192-268: validation and the provider lookup
BorrowMedia_lookup(t) ==
    /\ task[t].op = "borrow" /\ task[t].pc = "lookup"
    /\ LET tk == task[t]
       IN  IF tk.media_type = "book"
           THEN IF ~validate_isbn(tk.arg)
                THEN /\ reply' = Msg(tk, "invalid_isbn", "")
                     /\ task' = [task EXCEPT ![t] = IdleTask]
                     /\ UNCHANGED menus
                ELSE \E media_info \in fetch_book_by_isbn(tk.arg) :
                        /\ UNCHANGED menus
                        /\ IF media_info = None
                           THEN /\ reply' = Msg(tk, "not_found", "")
                                /\ task' = [task EXCEPT ![t] = IdleTask]
                           ELSE /\ reply' = None
                                /\ task' = [task EXCEPT ![t].pc = "store",
                                                        ![t].info = media_info]
           ELSE \E search_results \in search_movies :
                   /\ task' = [task EXCEPT ![t] = IdleTask]
                   /\ IF search_results = None
                      THEN reply' = None /\ UNCHANGED menus
                      ELSE IF search_results = <<>>
                      THEN reply' = Msg(tk, "no_results", "") /\ UNCHANGED menus
                      ELSE /\ reply' = Msg(tk, "menu", "")
                           /\ menus' = menus \cup
                                {[owner |-> tk.user_id, media_type |-> tk.media_type,
                                  results |-> search_results]}
    /\ UNCHANGED <<media_items, rueckgabe_log, today, loops, sweep,
                   notified, deleted, books, books_log>>
    /\ UNCHANGED tokenVars
    /\ UNCHANGED apiVars

\* lines 270-282: the direct borrow of a book
BorrowMedia_store(t) ==
    /\ task[t].op = "borrow" /\ task[t].pc = "store"
    /\ LET tk == task[t]
           due_date == today + due_period_days
       IN  /\ media_items' = borrow_media(media_items, tk.user_id, tk.media_type,
                                          tk.info, due_date)
           /\ notified' = [notified EXCEPT
                             ![<<tk.user_id, tk.media_type, tk.info.external_id>>] = 0]
           /\ reply' = Msg(tk, "borrowed", tk.info.title)
    /\ task' = [task EXCEPT ![t] = IdleTask]
    /\ UNCHANGED <<rueckgabe_log, today, menus, loops, sweep, deleted,
                   books, books_log>>
    /\ UNCHANGED tokenVars
    /\ UNCHANGED apiVars

\* next(item for item in results if item["external_id"] == value, None)
selected_item(results, value) ==
    IF \E i \in 1..Len(results) : results[i].external_id = value
    THEN results[CHOOSE i \in 1..Len(results) :
                    /\ results[i].external_id = value
                    /\ \A j \in 1..(i - 1) : results[j].external_id # value]
    ELSE None

\* a callback that takes the selection of any user
select_callback_any_user(su, m, value) ==
    /\ m \in menus
    /\ LET tk == [IdleTask EXCEPT !.op = "select", !.actor = su, !.user_id = su,
                                  !.media_type = m.media_type, !.arg = value]
           item == selected_item(m.results, value)
           due_date == today + due_period_days
       IN  IF item = None
           THEN /\ reply' = Msg(tk, "not_found", "")
                /\ UNCHANGED <<media_items, notified, menus>>
           ELSE /\ media_items' = borrow_media(media_items, su, m.media_type,
                                               item, due_date)
                /\ notified' = [notified EXCEPT
                                  ![<<su, m.media_type, item.external_id>>] = 0]
                /\ UNCHANGED menus
                /\ reply' = Msg(tk, "borrowed", item.title)
    /\ UNCHANGED <<rueckgabe_log, today, task, loops, sweep, deleted,
                   books, books_log>>
    /\ UNCHANGED tokenVars
    /\ UNCHANGED apiVars

\* MediaCommands._show_media_selection.select_callback
select_callback(su, m, value) ==
    /\ m \in menus
    /\ LET tk == [IdleTask EXCEPT !.op = "select", !.actor = su, !.user_id = su,
                                  !.media_type = m.media_type, !.arg = value]
           item == selected_item(m.results, value)
           due_date == today + due_period_days
       IN  IF su # m.owner
           THEN /\ reply' = Msg(tk, "not_yours", "")
                /\ UNCHANGED <<media_items, notified, menus>>
           ELSE IF item = None
           THEN /\ reply' = Msg(tk, "not_found", "")
                /\ UNCHANGED <<media_items, notified, menus>>
           ELSE /\ media_items' = borrow_media(media_items, su, m.media_type,
                                               item, due_date)
                /\ notified' = [notified EXCEPT
                                  ![<<su, m.media_type, item.external_id>>] = 0]
                /\ UNCHANGED menus
                /\ reply' = Msg(tk, "borrowed", item.title)
    /\ UNCHANGED <<rueckgabe_log, today, task, loops, sweep, deleted,
                   books, books_log>>
    /\ UNCHANGED tokenVars
    /\ UNCHANGED apiVars

\* a view that can no longer be used: edit_message(view=None) after the
\* borrow (bot.py:339), or its timeout.  Until then the menu takes clicks,
\* also while borrow_media is awaited.
menu_timeout(m) ==
    /\ m \in menus
    /\ menus' = menus \ {m}
    /\ reply' = None
    /\ UNCHANGED <<media_items, rueckgabe_log, today, task, loops, sweep,
                   notified, deleted, books, books_log>>
    /\ UNCHANGED tokenVars
    /\ UNCHANGED apiVars

\* MediaCommands._return_media, lines 357-366: the interaction arrives and
\* return_media runs its SELECT (database.py:144-148)
ReturnMedia_select(t, u, k, x) ==
    /\ task[t].pc = "idle"
    /\ Len(rueckgabe_log) < MaxLog /\ Len(deleted) < MaxLog
    /\ LET tk == [IdleTask EXCEPT !.op = "return", !.actor = u, !.user_id = u,
                                  !.media_type = k, !.arg = x, !.call = 1]
           media == return_media_select(media_items, u, k, x)
       IN  IF media = None
           THEN /\ reply' = Msg(tk, "not_borrowed", "")
                /\ UNCHANGED task
           ELSE /\ task' = [task EXCEPT ![t] = [tk EXCEPT !.pc = "delete",
                                                           !.media = media]]
                /\ reply' = None
    /\ UNCHANGED <<media_items, rueckgabe_log, today, menus, loops, sweep,
                   notified, deleted, books, books_log>>
    /\ UNCHANGED tokenVars
    /\ UNCHANGED apiVars

\* AdminCommands._force_return, lines 825-835: the first return_media call
\* runs its SELECT
ForceReturn_select(t, u, k, x) ==
    /\ task[t].pc = "idle"
    /\ Len(rueckgabe_log) < MaxLog /\ Len(deleted) < MaxLog
    /\ LET tk == [IdleTask EXCEPT !.op = "force", !.actor = Admin, !.user_id = u,
                                  !.media_type = k, !.arg = x, !.call = 1]
           media == return_media_select(media_items, u, k, x)
       IN  IF media = None
           THEN /\ reply' = Msg(tk, "not_found", "")
                /\ UNCHANGED task
           ELSE /\ task' = [task EXCEPT ![t] = [tk EXCEPT !.pc = "delete",
                                                           !.media = media]]
                /\ reply' = None
    /\ UNCHANGED <<media_items, rueckgabe_log, today, menus, loops, sweep,
                   notified, deleted, books, books_log>>
    /\ UNCHANGED tokenVars
    /\ UNCHANGED apiVars

\* return_media, database.py:151-154: the DELETE
ReturnMedia_delete(t) ==
    /\ task[t].pc = "delete"
    /\ LET tk == task[t]
           hit == WithKey(media_items, tk.user_id, tk.media_type, tk.arg)
       IN  /\ media_items' = return_media_delete(media_items, tk.user_id,
                                                 tk.media_type, tk.arg)
           /\ deleted' = IF hit = {} THEN deleted
                         ELSE Append(deleted, <<tk.user_id, tk.media_type, tk.arg>>)
           /\ notified' = IF hit = {} THEN notified
                          ELSE [notified EXCEPT
                                  ![<<tk.user_id, tk.media_type, tk.arg>>] = 0]
    /\ task' = [task EXCEPT ![t].pc = "insert"]
    /\ reply' = None
    /\ UNCHANGED <<rueckgabe_log, today, menus, loops, sweep, books, books_log>>
    /\ UNCHANGED tokenVars
    /\ UNCHANGED apiVars

\* return_media, database.py:155-159: the INSERT into rueckgabe_log, and what
\* the caller does with the returned row (bot.py:364-368, 833-846)
ReturnMedia_insert(t) ==
    /\ task[t].pc = "insert"
    /\ LET tk == task[t]
       IN  /\ rueckgabe_log' = return_media_log(rueckgabe_log, tk.user_id,
                                                tk.media_type, tk.arg, tk.media)
           /\ IF tk.op = "return"
              THEN /\ reply' = Msg(tk, "returned", tk.media.title)
                   /\ task' = [task EXCEPT ![t] = IdleTask]
              ELSE IF tk.call = 1
              THEN /\ reply' = None
                   /\ task' = [task EXCEPT ![t].pc = "again", ![t].result = tk.media,
                                           ![t].media = None]
              ELSE /\ reply' = Msg(tk, "forced", tk.result.title)
                   /\ task' = [task EXCEPT ![t] = IdleTask]
    /\ UNCHANGED <<media_items, today, menus, loops, sweep, notified, deleted,
                   books, books_log>>
    /\ UNCHANGED tokenVars
    /\ UNCHANGED apiVars

\* _force_return, bot.py:838: the second return_media call runs its SELECT
ForceReturn_again(t) ==
    /\ task[t].pc = "again"
    /\ LET tk == task[t]
           media == return_media_select(media_items, tk.user_id, tk.media_type,
                                        tk.arg)
       IN  IF media = None
           THEN /\ reply' = Msg(tk, "forced", tk.result.title)
                /\ task' = [task EXCEPT ![t] = IdleTask]
           ELSE /\ reply' = None
                /\ task' = [task EXCEPT ![t].pc = "delete", ![t].call = 2,
                                        ![t].media = media]
    /\ UNCHANGED <<media_items, rueckgabe_log, today, menus, loops, sweep,
                   notified, deleted, books, books_log>>
    /\ UNCHANGED tokenVars
    /\ UNCHANGED apiVars

\* The awaited database statement of a handler raises (connection lost): the
\* handler's except branch answers with an error (bot.py:284-286, 370-372,
\* 850-852).  The statement that raised has not run.
db_error(t) ==
    /\ task[t].pc \in {"store", "delete", "insert"}
    /\ reply' = Msg(task[t], "error", "")
    /\ task' = [task EXCEPT ![t] = IdleTask]
    /\ UNCHANGED <<media_items, rueckgabe_log, today, menus, loops, sweep,
                   notified, deleted, books, books_log>>
    /\ UNCHANGED tokenVars
    /\ UNCHANGED apiVars

(***************************************************************************)
(* Reminder loop (bot.py: ReminderTasks)                                   *)
(***************************************************************************)
IdleSweep == [pc |-> "wait", rows |-> {}, cur |-> None]

Bump(n) == IF n < MaxNotified THEN n + 1 ELSE n

\* DiscordBot._register_events.on_ready: ReminderTasks(self.bot) starts a loop,
\* at every ready event; the model has room for as many loops as sweep has
\* entries
on_ready ==
    /\ loops + 1 \in DOMAIN sweep
    /\ loops' = loops + 1
    /\ reply' = None
    /\ UNCHANGED <<media_items, rueckgabe_log, today, task, menus, sweep,
                   notified, deleted, books, books_log>>
    /\ UNCHANGED tokenVars
    /\ UNCHANGED apiVars

\* remind_due_media, lines 905-913: an iteration starts and reads the due rows
remind_due_media_select(l) ==
    /\ l <= loops
    /\ sweep[l].pc = "wait"
    /\ LET rows == get_due_media(media_items, today + remind_days_before)
       IN  /\ rows # {}
           /\ sweep' = [sweep EXCEPT ![l] = [pc |-> "rows", rows |-> rows,
                                             cur |-> None]]
    /\ reply' = None
    /\ UNCHANGED <<media_items, rueckgabe_log, today, task, menus, loops,
                   notified, deleted, books, books_log>>
    /\ UNCHANGED tokenVars
    /\ UNCHANGED apiVars

\* a loop that ends the iteration at the first row it is done with
AfterRow_abort(rest) == [pc |-> "wait", rows |-> {}, cur |-> None]

AfterRow(rest) == [pc |-> IF rest = {} THEN "wait" ELSE "rows", rows |-> rest,
                   cur |-> None]

\* lines 915-917, 931-935: get_user() is None, reminders are disabled, or
\* user.send raises; nothing is marked and the loop goes on with the next row
remind_due_media_skip(l, row) ==
    /\ sweep[l].pc = "rows" /\ row \in sweep[l].rows
    /\ sweep' = [sweep EXCEPT ![l] = AfterRow(sweep[l].rows \ {row})]
    /\ reply' = None
    /\ UNCHANGED <<media_items, rueckgabe_log, today, task, menus, loops,
                   notified, deleted, books, books_log>>
    /\ UNCHANGED tokenVars
    /\ UNCHANGED apiVars

\* lines 915-928: user.send delivers the reminder of the row
remind_due_media_send(l, row) ==
    /\ sweep[l].pc = "rows" /\ row \in sweep[l].rows
    /\ enable_dm_reminders
    /\ sweep' = [sweep EXCEPT ![l] = [pc |-> "mark", rows |-> sweep[l].rows \ {row},
                                      cur |-> row]]
    /\ notified' = IF \E r \in media_items : Key(r) = Key(row)
                   THEN [notified EXCEPT ![Key(row)] = Bump(@)]
                   ELSE notified
    /\ reply' = [op |-> "remind", actor |-> row.user_id,
                 arg |-> row.external_id, outcome |-> "reminder",
                 title |-> row.title]
    /\ UNCHANGED <<media_items, rueckgabe_log, today, task, menus, loops,
                   deleted, books, books_log>>
    /\ UNCHANGED tokenVars
    /\ UNCHANGED apiVars

\* lines 915-928: the next row; get_user, then user.send
remind_due_media_notify(l) ==
    \E row \in sweep[l].rows :
        \/ remind_due_media_skip(l, row)
        \/ remind_due_media_send(l, row)

\* line 929: mark_media_reminded for the row just sent
remind_due_media_mark(l) ==
    /\ sweep[l].pc = "mark"
    /\ LET row == sweep[l].cur
       IN  media_items' = mark_media_reminded(media_items, row.user_id, row.title,
                                              row.media_type)
    /\ sweep' = [sweep EXCEPT ![l] = AfterRow(sweep[l].rows)]
    /\ reply' = None
    /\ UNCHANGED <<rueckgabe_log, today, task, menus, loops, notified, deleted,
                   books, books_log>>
    /\ UNCHANGED tokenVars
    /\ UNCHANGED apiVars

\* lines 934-935: mark_media_reminded raises; the row is skipped
remind_due_media_mark_error(l) ==
    /\ sweep[l].pc = "mark"
    /\ sweep' = [sweep EXCEPT ![l] = AfterRow(sweep[l].rows)]
    /\ reply' = None
    /\ UNCHANGED <<media_items, rueckgabe_log, today, task, menus, loops,
                   notified, deleted, books, books_log>>
    /\ UNCHANGED tokenVars
    /\ UNCHANGED apiVars

(***************************************************************************)
(* database.py: APIHandler, the bearer tokens of Spotify and IGDB.  A      *)
(* search is a sequence of steps, one per awaited HTTP request.            *)
(***************************************************************************)
\* sent counts the search requests the call has sent to the provider
IdleSearch == [pc |-> "idle", provider |-> "", tok |-> NoToken, sent |-> 0]

\* `if not self.spotify_token` (345), `if not self.igdb_token` (462), negated
has_token(tok) == tok # NoToken

\* the provider's side: the token was handed out and has not expired
TokenValid(p, tok) ==
    /\ tok \in DOMAIN issued[p]
    /\ now < issued[p][tok]

\* the searches on provider p in flight that may still send a token request
\* (after a 401)
Busy(p) == Cardinality({t \in DOMAIN search : /\ search[t].pc \in {"exchange",
                                                                   "call"}
                                              /\ search[t].provider = p})

Answer(kind, p, status, result) ==
    [from |-> kind, provider |-> p, status |-> status, result |-> result]

\* search_music / search_video_games up to their first await: without a held
\* token the token request goes out (345-346, 462-463), with one the search
\* request goes out with it (356-360, 466-482).  A search makes at most two
\* token requests; it starts while the model has room for them.
search_api(t, p) ==
    /\ search[t].pc = "idle"
    /\ exchanges[p] + Busy(p) + 2 <= MaxExchanges
    /\ IF has_token(token[p])
       THEN /\ search' = [search EXCEPT ![t] = [pc |-> "call", provider |-> p,
                                                tok |-> token[p],
                                                sent |-> 1]]
            /\ UNCHANGED exchanges
       ELSE /\ search' = [search EXCEPT ![t] = [pc |-> "exchange",
                                                provider |-> p,
                                                tok |-> NoToken,
                                                sent |-> 0]]
            /\ exchanges' = [exchanges EXCEPT ![p] = @ + 1]
    /\ http' = None
    /\ UNCHANGED <<now, token, issued>>
    /\ UNCHANGED botVars
    /\ UNCHANGED apiVars

search_music(t) == search_api(t, "spotify")

search_video_games(t) == search_api(t, "igdb")

\* the request that follows a token request: headers are built from the held
\* token, whatever it is (356, 363-364, 468, 485-486)
AfterToken(u, held) ==
    [pc |-> IF u.pc = "exchange" THEN "call" ELSE "recall",
     provider |-> u.provider, tok |-> held, sent |-> u.sent + 1]

\* _get_spotify_token / _get_igdb_token, status 200 (676-678, 693-695): the
\* token of the answer is held from now on
get_token_stored(t) ==
    /\ search[t].pc \in {"exchange", "reexchange"}
    /\ LET p == search[t].provider
           new == Len(issued[p]) + 1
       IN  /\ issued' = [issued EXCEPT ![p] = Append(@, now + TokenLifetime)]
           /\ token' = [token EXCEPT ![p] = new]
           /\ search' = [search EXCEPT ![t] = AfterToken(@, new)]
           /\ http' = Answer("token", p, "200", "")
    /\ UNCHANGED <<now, exchanges>>
    /\ UNCHANGED botVars
    /\ UNCHANGED apiVars

\* _get_spotify_token / _get_igdb_token, any other status (679-680, 696-697):
\* an error is logged and the method returns; the search goes on
get_token_refused(t) ==
    /\ search[t].pc \in {"exchange", "reexchange"}
    /\ LET p == search[t].provider
       IN  /\ search' = [search EXCEPT ![t] = AfterToken(@, token[p])]
           /\ http' = Answer("token", p, "400", "")
    /\ UNCHANGED <<now, token, issued, exchanges>>
    /\ UNCHANGED botVars
    /\ UNCHANGED apiVars

\* the token request raises (no connection): the first one is awaited outside
\* the try block and the exception leaves the search (345-346, 462-463), the
\* one after a 401 is caught and the search returns None (405-407, 528-530)
get_token_unreachable(t) ==
    /\ search[t].pc \in {"exchange", "reexchange"}
    /\ search' = [search EXCEPT ![t] = IdleSearch]
    /\ http' = Answer("token", search[t].provider, "raise",
                      IF search[t].pc = "exchange" THEN "raise" ELSE "none")
    /\ UNCHANGED <<now, token, issued, exchanges>>
    /\ UNCHANGED botVars
    /\ UNCHANGED apiVars

get_token(t) ==
    \/ get_token_stored(t)
    \/ get_token_refused(t)
    \/ get_token_unreachable(t)

\* a search that gives up at the first 401
retry_never(status) == FALSE

\* `if resp.status == 401` (361, 483)
retry_on_401(status) == status = "401"

\* the provider's answer to a request carrying token tok
Status(p, tok) == IF TokenValid(p, tok) THEN "200" ELSE "401"

\* the answer to the first search request (360-371, 482-493): at 401 a token
\* request goes out, at 200 the results are returned
search_answer(t) ==
    /\ search[t].pc = "call"
    /\ LET p == search[t].provider
           status == Status(p, search[t].tok)
       IN  IF retry_on_401(status)
           THEN /\ search' = [search EXCEPT ![t].pc = "reexchange"]
                /\ exchanges' = [exchanges EXCEPT ![p] = @ + 1]
                /\ http' = Answer("api", p, status, "")
           ELSE /\ search' = [search EXCEPT ![t] = IdleSearch]
                /\ http' = Answer("api", p, status,
                                  IF status = "200" THEN "results" ELSE "none")
                /\ UNCHANGED exchanges
    /\ UNCHANGED <<now, token, issued>>
    /\ UNCHANGED botVars
    /\ UNCHANGED apiVars

\* the answer to the second search request (364-367, 486-489)
search_retry_answer(t) ==
    /\ search[t].pc = "recall"
    /\ LET p == search[t].provider
           status == Status(p, search[t].tok)
       IN  http' = Answer("api", p, status,
                          IF status = "200" THEN "results" ELSE "none")
    /\ search' = [search EXCEPT ![t] = IdleSearch]
    /\ UNCHANGED <<now, token, issued, exchanges>>
    /\ UNCHANGED botVars
    /\ UNCHANGED apiVars

\* the search request fails for another reason (server error, timeout): the
\* search returns None (368-369, 405-407, 490-491, 528-530)
search_failed(t) ==
    /\ search[t].pc \in {"call", "recall"}
    /\ search' = [search EXCEPT ![t] = IdleSearch]
    /\ http' = Answer("api", search[t].provider, "500", "none")
    /\ UNCHANGED <<now, token, issued, exchanges>>
    /\ UNCHANGED botVars
    /\ UNCHANGED apiVars

\* time passes
Tick ==
    /\ now < MaxClock
    /\ now' = now + 1
    /\ http' = None
    /\ UNCHANGED <<token, issued, exchanges, search>>
    /\ UNCHANGED botVars
    /\ UNCHANGED apiVars

(***************************************************************************)
(* Environment                                                             *)
(***************************************************************************)
\* midnight
AdvanceDay ==
    /\ today < MaxDay
    /\ today' = today + 1
    /\ reply' = None
    /\ UNCHANGED <<media_items, rueckgabe_log, task, menus, loops, sweep,
                   notified, deleted, books, books_log>>
    /\ UNCHANGED tokenVars
    /\ UNCHANGED apiVars

\* The process stops and is started again: the tables stay, every handler,
\* view and loop is gone, and so are the tokens the APIHandler held.
Crash ==
    /\ \/ \E t \in Slots : task[t].pc # "idle"
       \/ \E l \in Loops : sweep[l].pc # "wait"
    /\ task' = [t \in Slots |-> IdleTask]
    /\ sweep' = [l \in Loops |-> IdleSweep]
    /\ menus' = {}
    /\ loops' = 0
    /\ reply' = None
    /\ token' = [p \in Providers |-> NoToken]
    /\ search' = [t \in SearchSlots |-> IdleSearch]
    /\ http' = None
    /\ UNCHANGED <<media_items, rueckgabe_log, today, notified, deleted,
                   books, books_log, now, issued, exchanges>>
    /\ UNCHANGED apiVars

\* the state after start, with room for the handlers S and the loops L
InitWith(S, L) ==
    /\ media_items = {}
    /\ rueckgabe_log = <<>>
    /\ today = 0
    /\ task = [t \in S |-> IdleTask]
    /\ menus = {}
    /\ loops = 0
    /\ sweep = [l \in L |-> IdleSweep]
    /\ notified = [k \in Keys |-> 0]
    /\ deleted = <<>>
    /\ reply = None
    /\ books = {}
    /\ books_log = <<>>
    /\ now = 0
    /\ token = [p \in Providers |-> NoToken]
    /\ issued = [p \in Providers |-> <<>>]
    /\ exchanges = [p \in Providers |-> 0]
    /\ search = [t \in SearchSlots |-> IdleSearch]
    /\ http = None
    /\ request = <<>>
    /\ returned = None

Init == InitWith(Slots, Loops)

\* Commands: <<user, media type, argument>>
BorrowBook(Us, Qs) == {<<u, "book", q>> : u \in Us, q \in Qs}
\* return_book (bot.py:31-32) hands isbn.strip().replace("-", "") on
ReturnBook(Us, Qs) == {<<u, "book", clean_isbn(q)>> : u \in Us, q \in Qs}
BorrowMovie(Us) == {<<u, "movie", <<>>>> : u \in Us}
ReturnMovie(Us) == {<<u, "movie", x>> : u \in Us, x \in MovieIds}

\* the steps of the handlers in slot t, for the commands In (borrow), Ret
\* (return) and Frc (force_return)
HandlerStep(t, In, Ret, Frc) ==
    \/ \E in \in In : BorrowMedia_limit(t, in[1], in[2], in[3])
    \/ BorrowMedia_lookup(t)
    \/ BorrowMedia_store(t)
    \/ \E in \in Ret : ReturnMedia_select(t, in[1], in[2], in[3])
    \/ \E in \in Frc : ForceReturn_select(t, in[1], in[2], in[3])
    \/ ReturnMedia_delete(t)
    \/ ReturnMedia_insert(t)
    \/ ForceReturn_again(t)

SweepStep(l) ==
    \/ remind_due_media_select(l)
    \/ remind_due_media_notify(l)
    \/ remind_due_media_mark(l)

\* The bot with the book commands in use.
Next ==
    \/ \E t \in Slots : HandlerStep(t, BorrowBook({1}, IsbnInputs),
                                          ReturnBook({1}, IsbnInputs),
                                          ReturnBook({1}, IsbnInputs))
    \/ \E t \in Slots : db_error(t)
    \/ on_ready
    \/ \E l \in Loops : SweepStep(l)
    \/ \E l \in Loops : remind_due_media_mark_error(l)
    \/ AdvanceDay
    \/ Crash

Spec == Init /\ [][Next]_vars

(***************************************************************************)
(* The same handlers run one at a time: a handler or a sweep iteration     *)
(* that has started runs to its end before anything else happens, and no   *)
(* statement fails.  Two users issue commands.                             *)
(***************************************************************************)
SeqCommands ==
    BorrowBook({1}, {IsbnAHyphen, IsbnB, IsbnShort}) \cup
    BorrowBook({2}, {IsbnAHyphen})
SeqReturns ==
    ReturnBook({1}, {IsbnAHyphen, IsbnB}) \cup ReturnBook({2}, {IsbnAHyphen})

TasksAtRest(S) == \A t \in S : task[t].pc = "idle"
SweepsAtRest(S) == \A l \in S : sweep[l].pc = "wait"

SeqStep(In, Ret, Frc) ==
    \/ \E t \in Slots :
         /\ TasksAtRest(Slots \ {t}) /\ SweepsAtRest(Loops)
         /\ HandlerStep(t, In, Ret, Frc)
    \/ \E l \in Loops :
         /\ TasksAtRest(Slots) /\ SweepsAtRest(Loops \ {l})
         /\ SweepStep(l)
    \/ TasksAtRest(Slots) /\ SweepsAtRest(Loops) /\ on_ready
    \/ TasksAtRest(Slots) /\ SweepsAtRest(Loops) /\ AdvanceDay

SeqNext == SeqStep(SeqCommands, SeqReturns, SeqReturns)

SpecSeq == Init /\ [][SeqNext]_vars

\* One user with two editions of one book, and the reminder loop under its
\* schedule: tasks.loop(hours=24) starts an iteration again and again, an
\* iteration that has its rows goes through them and marks what it sent, and
\* the delivery of a loan's reminder, tried again and again, succeeds at
\* some time.
RemindCommands == BorrowBook({1}, {IsbnAHyphen, IsbnB})
RemindReturns == ReturnBook({1}, {IsbnB})
RemindKeys == {<<1, "book", IsbnA>>, <<1, "book", IsbnB>>}

RemindNext == SeqStep(RemindCommands, RemindReturns, RemindReturns)

SeqSweepAction(l, A) ==
    TasksAtRest(Slots) /\ SweepsAtRest(Loops \ {l}) /\ A

SeqSend(l, k) ==
    \E row \in sweep[l].rows :
        Key(row) = k /\ SeqSweepAction(l, remind_due_media_send(l, row))

\* a handler that has started goes on after each of its awaits
HandlerProgress(t) ==
    \/ BorrowMedia_lookup(t)
    \/ BorrowMedia_store(t)
    \/ ReturnMedia_delete(t)
    \/ ReturnMedia_insert(t)
    \/ ForceReturn_again(t)

RemindFairness ==
    /\ \A t \in Slots : WF_vars(HandlerProgress(t))
    /\ SF_vars(TasksAtRest(Slots) /\ SweepsAtRest(Loops) /\ on_ready)
    /\ \A l \in Loops :
          /\ SF_vars(SeqSweepAction(l, remind_due_media_select(l)))
          /\ WF_vars(SeqSweepAction(l, remind_due_media_notify(l)))
          /\ WF_vars(SeqSweepAction(l, remind_due_media_mark(l)))
          /\ \A k \in RemindKeys : SF_vars(SeqSend(l, k))

SpecRemind == Init /\ [][RemindNext]_vars /\ RemindFairness

\* Ready events that come again (a reconnect), each starting a loop of its
\* own: the steps of the loops interleave at their awaits, the handlers run one
\* at a time between the iterations.
ReadyNext ==
    \/ \E t \in Slots :
         /\ TasksAtRest(Slots \ {t}) /\ SweepsAtRest(ReadyLoops)
         /\ HandlerStep(t, RemindCommands, RemindReturns, RemindReturns)
    \/ \E l \in ReadyLoops : TasksAtRest(Slots) /\ SweepStep(l)
    \/ TasksAtRest(Slots) /\ on_ready
    \/ TasksAtRest(Slots) /\ SweepsAtRest(ReadyLoops) /\ AdvanceDay

SpecReady == InitWith(Slots, ReadyLoops) /\ [][ReadyNext]_vars

\* Two borrow handlers in flight that interleave at their awaits, for one
\* book and the film menu of user 1; the sweep runs between them.
PairCommands == BorrowBook({1}, {IsbnB}) \cup BorrowMovie({1})

BorrowStep(t, In) ==
    \/ \E in \in In : BorrowMedia_limit(t, in[1], in[2], in[3])
    \/ BorrowMedia_lookup(t)
    \/ BorrowMedia_store(t)

PairNext ==
    \/ \E t \in PairSlots : BorrowStep(t, PairCommands)
    \/ \E m \in menus, su \in Users, value \in MovieIds : select_callback(su, m, value)
    \/ \E m \in menus : menu_timeout(m)
    \/ TasksAtRest(PairSlots) /\ on_ready
    \/ \E l \in Loops : TasksAtRest(PairSlots) /\ SweepStep(l)
    \/ AdvanceDay

SpecPair == InitWith(PairSlots, Loops) /\ [][PairNext]_vars

\* Two return handlers in flight, a user's return and an admin's forced
\* return, that interleave at their awaits.
RaceCommands == BorrowBook({1}, {IsbnAHyphen, IsbnB})
RaceReturns == ReturnBook({1}, {IsbnB})

ReturnStep(t, Ret, Frc) ==
    \/ \E in \in Ret : ReturnMedia_select(t, in[1], in[2], in[3])
    \/ \E in \in Frc : ForceReturn_select(t, in[1], in[2], in[3])
    \/ ReturnMedia_delete(t)
    \/ ReturnMedia_insert(t)
    \/ ForceReturn_again(t)

RaceNext ==
    \/ \E t \in PairSlots : TasksAtRest(PairSlots \ {t}) /\ BorrowStep(t, RaceCommands)
    \/ \E t \in PairSlots : ReturnStep(t, RaceReturns, RaceReturns)
    \/ TasksAtRest(PairSlots) /\ AdvanceDay

SpecRace == InitWith(PairSlots, Loops) /\ [][RaceNext]_vars

(***************************************************************************)
(* The searches of the APIHandler, any number of them in flight at once:   *)
(* every command of the bot that searches runs as a task of its own.       *)
(***************************************************************************)
SearchStep(t) ==
    \/ search_music(t)
    \/ search_video_games(t)
    \/ get_token(t)
    \/ search_answer(t)
    \/ search_retry_answer(t)
    \/ search_failed(t)

TokenNext ==
    \/ \E t \in SearchSlots : SearchStep(t)
    \/ Tick

SpecToken == Init /\ [][TokenNext]_vars

\* the searches one after the other
SearchesAtRest(S) == \A t \in S : search[t].pc = "idle"

TokenSeqNext ==
    \/ \E t \in SearchSlots : SearchesAtRest(SearchSlots \ {t}) /\ SearchStep(t)
    \/ Tick

SpecTokenSeq == Init /\ [][TokenSeqNext]_vars

\* every awaited request of a search comes to an end: the answer arrives, the
\* connection fails, or the timeout of the session fires (ClientTimeout,
\* database.py:359, 481; aiohttp's default for the token request, 674, 691)
RequestEnds(t) ==
    \/ get_token(t)
    \/ search_answer(t)
    \/ search_retry_answer(t)
    \/ search_failed(t)

TokenFairness == \A t \in SearchSlots : WF_vars(RequestEnds(t))

SpecTokenFair == Init /\ [][TokenSeqNext]_vars /\ TokenFairness

(***************************************************************************)
(* The lists a search returns and the selection menu offers, for every     *)
(* list a provider may answer with.                                        *)
(***************************************************************************)
\* the records of a provider's answer: data["albums"]["items"] of Spotify
\* (database.py:373), data["results"] of TMDB (database.py:272)
ProviderRecords == {[id |-> <<"1">>, name |-> "T"], [id |-> <<"2">>, name |-> "U"]}

RECURSIVE ListsUpTo(_)
ListsUpTo(n) ==
    IF n = 0 THEN {<<>>}
    ELSE LET shorter == ListsUpTo(n - 1)
         IN  shorter \cup {Append(l, x) : l \in {m \in shorter : Len(m) = n - 1},
                                          x \in ProviderRecords}

ProviderAnswers == ListsUpTo(MaxItems)

\* one record of the answer as the search hands it on
result_of(item) == [external_id |-> item.id, title |-> item.name]

\* search_music, lines 373-403: `for item in items: ... results.append(result)`
music_results(items) == [i \in 1..Len(items) |-> result_of(items[i])]

\* search_movies, lines 272-290: `for movie in results[:5]: movies.append(...)`
movie_results(results) ==
    [i \in 1..Len(first5(results)) |-> result_of(first5(results)[i])]

\* _show_media_selection, bot.py:290-314: one option per item of results[:5]
select_options(results) ==
    [i \in 1..Len(first5(results)) |->
        [label |-> first5(results)[i].title,
         value |-> first5(results)[i].external_id]]

Returned(fn, arg, value) == [fn |-> fn, arg |-> arg, value |-> value]

\* search_music answered 200 with the records items
search_music_returns(items) ==
    /\ request' = <<"spotify">>
    /\ returned' = Returned("search_music", items, music_results(items))
    /\ UNCHANGED botVars
    /\ UNCHANGED tokenVars

\* search_movies answered 200 with the records results
search_movies_returns(results) ==
    /\ request' = <<"tmdb">>
    /\ returned' = Returned("search_movies", results, movie_results(results))
    /\ UNCHANGED botVars
    /\ UNCHANGED tokenVars

\* _show_media_selection with the list a search has returned
show_media_selection(results) ==
    /\ returned # None
    /\ returned.fn \in {"search_music", "search_movies"}
    /\ results = returned.value
    /\ request' = <<>>
    /\ returned' = Returned("show_media_selection", results,
                            select_options(results))
    /\ UNCHANGED botVars
    /\ UNCHANGED tokenVars

ResultsNext ==
    \/ \E items \in ProviderAnswers : search_music_returns(items)
    \/ \E results \in ProviderAnswers : search_movies_returns(results)
    \/ /\ returned # None
       /\ \E results \in {returned.value} : show_media_selection(results)

SpecResults == Init /\ [][ResultsNext]_vars

(***************************************************************************)
(* The lookup of a music borrow (bot.py:221-231): Spotify first, then       *)
(* MusicBrainz for the album kinds.                                        *)
(***************************************************************************)
MusicTypes == {"music_cd", "vinyl", "song"}

\* what a search may return: None, or the list made of the provider's answer
NoList == [none |-> TRUE, list |-> <<>>]
List(l) == [none |-> FALSE, list |-> l]
SearchAnswers == {NoList} \cup {List(music_results(l)) : l \in ListsUpTo(MaxAnswer)}

\* `not search_results`: None and the empty list are both false
is_empty(search_results) == search_results.none \/ search_results.list = <<>>

\* a lookup that asks MusicBrainz whatever Spotify has found
needs_fallback_always(search_results, media_type) ==
    media_type \in {"music_cd", "vinyl"}

\* `if not search_results and media_type in ["music_cd", "vinyl"]` (230)
needs_fallback(search_results, media_type) ==
    is_empty(search_results) /\ media_type \in {"music_cd", "vinyl"}

\* lines 221-231, Spotify enabled: search_music answers primary, and
\* search_musicbrainz, if it is called, answers fallback
lookup_music(media_type, primary, fallback) ==
    /\ request' = IF needs_fallback(primary, media_type)
                  THEN <<"spotify", "musicbrainz">>
                  ELSE <<"spotify">>
    /\ returned' = Returned("lookup_music",
                            [media_type |-> media_type, primary |-> primary,
                             fallback |-> fallback],
                            IF needs_fallback(primary, media_type)
                            THEN fallback ELSE primary)
    /\ UNCHANGED botVars
    /\ UNCHANGED tokenVars

MusicNext ==
    \E media_type \in MusicTypes, primary \in SearchAnswers,
       fallback \in SearchAnswers : lookup_music(media_type, primary, fallback)

SpecMusic == Init /\ [][MusicNext]_vars

(***************************************************************************)
(* validate_isbn over a set of identifiers: valid ISBNs, every string that *)
(* differs from one in a single digit, and strings that are no ISBN.       *)
(***************************************************************************)
\* 0-8044-2957-X, an ISBN-10 whose check character is X
IsbnX == <<"0", "8", "0", "4", "4", "2", "9", "5", "7", "X">>
IsbnLetter == <<"0", "3", "0", "6", "4", "0", "6", "1", "5", "a">>
IsbnSpaces == <<" ", "9", "7", "8", "0", "3", "0", "6", "4", "0", "6", "1", "5", "7", " ">>
IsbnLong == IsbnB \o <<"0">>

\* the strings that differ from s in exactly one position, by another digit
Mutations(s) ==
    {[s EXCEPT ![i] = d] : i \in 1..Len(s), d \in Digits} \ {s}

IsbnProbes ==
    {IsbnA, IsbnAHyphen, IsbnB, IsbnC, IsbnX, IsbnShort, IsbnLetter,
     IsbnSpaces, IsbnLong, <<>>}
    \cup Mutations(IsbnA) \cup Mutations(IsbnB)

\* api_handler.validate_isbn(isbn), as bot.py:198 calls it
validate_isbn_call(isbn) ==
    /\ request' = <<>>
    /\ returned' = Returned("validate_isbn", isbn, validate_isbn(isbn))
    /\ UNCHANGED botVars
    /\ UNCHANGED tokenVars

IsbnNext == \E isbn \in IsbnProbes : validate_isbn_call(isbn)

SpecIsbn == Init /\ [][IsbnNext]_vars

(***************************************************************************)
(* /my_media among borrows of two users, books and movies, over the days.  *)
(***************************************************************************)
\* MediaCommands._my_media, bot.py:374-378: the list of the user's loans
my_media(u, media_type) ==
    /\ \E rows \in get_user_media_rows(media_items, u, media_type) :
          returned' = Returned("get_user_media",
                               [user_id |-> u, media_type |-> media_type], rows)
    /\ request' = <<>>
    /\ UNCHANGED botVars
    /\ UNCHANGED tokenVars

ListCommands ==
    BorrowBook({1}, {IsbnB}) \cup BorrowMovie({1}) \cup BorrowBook({2}, {IsbnB})

\* the movie picked in the selection menu
ListMovies == {<<"1">>}

ListNext ==
    \/ \E t \in Slots : BorrowStep(t, ListCommands)
    \/ \E m \in menus, value \in ListMovies :
          TasksAtRest(Slots) /\ select_callback(m.owner, m, value)
    \/ \E m \in menus : TasksAtRest(Slots) /\ menu_timeout(m)
    \/ TasksAtRest(Slots) /\ AdvanceDay
    \/ \E u \in Users, k \in {"", "book", "movie"} :
          TasksAtRest(Slots) /\ my_media(u, k)

SpecList == Init /\ [][ListNext]_vars

(***************************************************************************)
(* The handlers of two users one at a time, with statements that fail.     *)
(***************************************************************************)
FrameNext ==
    \/ SeqNext
    \/ \E t \in Slots : db_error(t)

SpecFrame == Init /\ [][FrameNext]_vars

(***************************************************************************)
(* The searches of a borrow under the secrets of the configuration         *)
(* (bot.py:207-268), with a book borrow beside them that writes the ledger.*)
(***************************************************************************)
\* the secrets the searches read: config.TMDB_API_KEY, SPOTIFY_CLIENT_ID, ...
Secrets == {"tmdb_key", "spotify_id", "spotify_secret", "igdb_id", "igdb_secret"}

\* the media types whose borrow goes through a search, and its provider
SearchKinds == {"movie", "music_cd", "song", "video_game"}
ProviderOf(media_type) ==
    IF media_type = "movie" THEN "tmdb"
    ELSE IF media_type = "video_game" THEN "igdb"
    ELSE "spotify"

\* the secrets a provider's search asks for before anything else
\* (database.py:254, 342, 459)
RequiredSecrets(p) ==
    IF p = "tmdb" THEN {"tmdb_key"}
    ELSE IF p = "spotify" THEN {"spotify_id", "spotify_secret"}
    ELSE {"igdb_id", "igdb_secret"}

\* `if not config.X [or not config.Y]`, negated
configured(cfg, p) == \A s \in RequiredSecrets(p) : s \in cfg

\* the configurations of the model: every secret set, one missing, none set
Configs == {Secrets, {}} \cup {Secrets \ {s} : s \in Secrets}

\* the token request of search_music / search_video_games has raised
Raised == [none |-> TRUE, list |-> <<>>, raised |-> TRUE]

\* what the provider's side of a search may come to: None, an empty list, a
\* list with a record, and for the providers with a token the exception of
\* the first token request
SecretAnswers == {NoList, List(<<>>), List(<<[external_id |-> <<"1">>, title |-> "T"]>>)}
OutcomesOf(p) == IF p \in Providers THEN SecretAnswers \cup {Raised} ELSE SecretAnswers

\* a search that sends its request whatever the configuration holds
search_with_any_config(cfg, p, answer) == [requests |-> <<p>>, value |-> answer]

\* search_movies / search_music / search_video_games: without the secret the
\* search returns None before any request, with it the request goes out
search_with(cfg, p, answer) ==
    IF ~configured(cfg, p) THEN [requests |-> <<>>, value |-> NoList]
    ELSE [requests |-> <<p>>, value |-> answer]

\* _borrow_media, lines 207-268 and 284-286, for a media type with a search:
\* the search, the MusicBrainz search after it for the album kinds, and what
\* the handler does with the list
BorrowMedia_search(t, cfg, primary, fallback) ==
    /\ task[t].op = "borrow" /\ task[t].pc = "lookup"
    /\ task[t].media_type \in SearchKinds
    /\ primary \in OutcomesOf(ProviderOf(task[t].media_type))
    /\ LET tk == task[t]
           p == ProviderOf(tk.media_type)
           first == search_with(cfg, p, primary)
           again == first.value # Raised /\ needs_fallback(first.value, tk.media_type)
           search_results == IF again THEN fallback ELSE first.value
       IN  /\ request' = IF again THEN first.requests \o <<"musicbrainz">>
                         ELSE first.requests
           /\ returned' = Returned("search", [cfg |-> cfg, provider |-> p,
                                              media_type |-> tk.media_type],
                                   first.value)
           /\ IF search_results = Raised
              THEN reply' = Msg(tk, "error", "") /\ UNCHANGED menus
              ELSE IF search_results.none
              THEN reply' = None /\ UNCHANGED menus
              ELSE IF search_results.list = <<>>
              THEN reply' = Msg(tk, "no_results", "") /\ UNCHANGED menus
              ELSE /\ reply' = Msg(tk, "menu", "")
                   /\ menus' = menus \cup
                        {[owner |-> tk.user_id, media_type |-> tk.media_type,
                          results |-> search_results.list]}
    /\ task' = [task EXCEPT ![t] = IdleTask]
    /\ UNCHANGED <<media_items, rueckgabe_log, today, loops, sweep,
                   notified, deleted, books, books_log>>
    /\ UNCHANGED tokenVars

SecretNext ==
    \/ \E t \in Slots, k \in SearchKinds : BorrowMedia_limit(t, 1, k, <<>>)
    \/ \E t \in Slots : BorrowMedia_limit(t, 1, "book", IsbnB)
    \/ \E t \in Slots : task[t].media_type = "book" /\ BorrowMedia_lookup(t)
    \/ \E t \in Slots : BorrowMedia_store(t)
    \/ \E t \in Slots, cfg \in Configs, primary \in SecretAnswers \cup {Raised},
          fallback \in SecretAnswers : BorrowMedia_search(t, cfg, primary, fallback)
    \/ \E m \in menus : TasksAtRest(Slots) /\ menu_timeout(m)

SpecSecrets == Init /\ [][SecretNext]_vars

(***************************************************************************)
(* A forced return of an admin and the borrows of the user, in flight      *)
(* together: their steps interleave at their awaits.                       *)
(***************************************************************************)
ForceCommands == BorrowBook({1}, {IsbnB})
ForceReturns == ReturnBook({1}, {IsbnB})

ForceNext ==
    \/ \E t \in PairSlots : BorrowStep(t, ForceCommands)
    \/ \E t \in PairSlots, in \in ForceReturns :
          ForceReturn_select(t, in[1], in[2], in[3])
    \/ \E t \in PairSlots : ReturnMedia_delete(t)
    \/ \E t \in PairSlots : ReturnMedia_insert(t)
    \/ \E t \in PairSlots : ForceReturn_again(t)
    \/ TasksAtRest(PairSlots) /\ AdvanceDay

SpecForce == InitWith(PairSlots, Loops) /\ [][ForceNext]_vars

(***************************************************************************)
(* One book written in several ways: borrowed with hyphens, returned       *)
(* without them or with other ones.  The handlers run one at a time.       *)
(***************************************************************************)
\* 0306406152 with its hyphens elsewhere, and with blanks around it
IsbnADashes == <<"0", "3", "0", "6", "-", "4", "0", "6", "1", "5", "2">>
IsbnAPadded == <<" ", "0", "-", "3", "0", "6", "-", "4", "0", "6", "1", "5", "-", "2", " ">>

\* what the user types at /borrow_book and at /return_book
HyphenBorrowInputs == {IsbnAHyphen, IsbnAPadded, IsbnB}
HyphenReturnInputs == {IsbnA, IsbnADashes, IsbnAPadded}

HyphenNext ==
    SeqStep(BorrowBook({1}, HyphenBorrowInputs), ReturnBook({1}, HyphenReturnInputs),
            ReturnBook({1}, HyphenReturnInputs))

SpecHyphen == Init /\ [][HyphenNext]_vars

(***************************************************************************)
(* main.py: the single-file bot.  Table books has UNIQUE (user_id, isbn);  *)
(* the ISBN is stored as typed.                                            *)
(***************************************************************************)
LegacyCommands == {<<1, IsbnA>>, <<1, IsbnB>>, <<2, IsbnA>>}

\* INSERT IGNORE INTO books (...): a row whose (user_id, isbn) exists is kept
\* as it is
books_insert_ignore(bs, user_id, isbn, book_info, due_date) ==
    IF \E r \in bs : r.user_id = user_id /\ r.isbn = isbn
    THEN bs
    ELSE bs \cup {[user_id |-> user_id, isbn |-> isbn, title |-> book_info.title,
                   due_date |-> due_date, reminded |-> FALSE]}

\* main.py: borrow
borrow(u, isbn) ==
    /\ \E book_info \in {None} \cup {[title |-> ti] : ti \in VolumeTitles(isbn)} :
         IF book_info = None
         THEN /\ reply' = [op |-> "borrow", actor |-> u, isbn |-> isbn,
                           outcome |-> "not_found", title |-> "", due_date |-> 0]
              /\ UNCHANGED books
         ELSE LET due_date == today + due_period_days
              IN  /\ books' = books_insert_ignore(books, u, isbn, book_info, due_date)
                  /\ reply' = [op |-> "borrow", actor |-> u, isbn |-> isbn,
                               outcome |-> "borrowed", title |-> book_info.title,
                               due_date |-> due_date]
    /\ UNCHANGED <<media_items, rueckgabe_log, today, task, menus, loops, sweep,
                   notified, deleted, books_log>>
    /\ UNCHANGED tokenVars
    /\ UNCHANGED apiVars

\* main.py: return_book
return_book(u, isbn) ==
    /\ Len(books_log) < MaxLog
    /\ books' = {r \in books : ~(r.user_id = u /\ r.isbn = isbn)}
    /\ books_log' = Append(books_log, [moderator_id |-> u, user_id |-> u,
                                       isbn |-> isbn])
    /\ reply' = [op |-> "return_book", actor |-> u, isbn |-> isbn,
                 outcome |-> "returned", title |-> "", due_date |-> 0]
    /\ UNCHANGED <<media_items, rueckgabe_log, today, task, menus, loops, sweep,
                   notified, deleted>>
    /\ UNCHANGED tokenVars
    /\ UNCHANGED apiVars

\* main.py: remind_due_books, one iteration of the loop.  Sent is the set of
\* rows whose user is found and whose message is delivered; each of them is
\* followed by UPDATE books SET reminded=TRUE WHERE user_id=%s AND title=%s.
remind_due_books ==
    /\ LET rows == {r \in books : r.reminded = FALSE
                                  /\ r.due_date <= today + remind_days_before}
       IN  /\ rows # {}
           /\ \E Sent \in SUBSET rows :
                books' = {IF \E row \in Sent : r.user_id = row.user_id
                                               /\ r.title = row.title
                          THEN [r EXCEPT !.reminded = TRUE] ELSE r : r \in books}
    /\ reply' = None
    /\ UNCHANGED <<media_items, rueckgabe_log, today, task, menus, loops, sweep,
                   notified, deleted, books_log>>
    /\ UNCHANGED tokenVars
    /\ UNCHANGED apiVars

LegacyNext ==
    \/ \E c \in LegacyCommands : borrow(c[1], c[2])
    \/ \E c \in LegacyCommands : return_book(c[1], c[2])
    \/ remind_due_books
    \/ AdvanceDay

SpecLegacy == Init /\ [][LegacyNext]_vars

(***************************************************************************)
(* Properties                                                              *)
(***************************************************************************)
Count(seq, x) == Cardinality({i \in 1..Len(seq) : seq[i] = x})
LogKeys == [i \in 1..Len(rueckgabe_log) |->
              <<rueckgabe_log[i].user_id, rueckgabe_log[i].media_type,
                rueckgabe_log[i].external_id>>]

\* C1: in every reachable state the ledger holds at most one loan for each
\* key (user_id, media_type, external_id).
C1_OneLoanPerKey ==
    \A r1 \in media_items, r2 \in media_items : Key(r1) = Key(r2) => r1 = r2

\* C1 witness: a borrow has just been written while the user holds a second
\* loan, a sweep has marked a loan and a return has been logged.
C1_Witness ==
    /\ reply # None /\ reply.outcome = "borrowed"
    /\ Cardinality(media_items) = 2
    /\ \E r \in media_items : r.reminded
    /\ Len(rueckgabe_log) = 1

\* C2: borrow is an idempotent upsert: after a borrow of a key that is
\* already held, the ledger holds exactly one loan for the key, with the due
\* date of the last borrow (the one the reply names) and reminded = false.
\* Stated of main.py's borrow on the books table.
C2_BorrowUpserts ==
    (reply # None /\ reply.op = "borrow" /\ reply.outcome = "borrowed") =>
        LET hit == {r \in books : r.user_id = reply.actor /\ r.isbn = reply.isbn}
        IN  /\ Cardinality(hit) = 1
            /\ \A r \in hit : r.due_date = reply.due_date /\ r.reminded = FALSE

\* C2, of database.py's borrow_media: the step that stores a borrow leaves
\* exactly one loan for the key, due on the new date and not reminded.
C2_BorrowMediaUpserts ==
    [][\A t \in Slots :
         (task[t].pc = "store" /\ task'[t].pc = "idle" /\ media_items' # media_items) =>
            LET hit == WithKey(media_items', task[t].user_id, task[t].media_type,
                               task[t].info.external_id)
            IN  /\ Cardinality(hit) = 1
                /\ \A r \in hit : /\ r.due_date = today + due_period_days
                                  /\ r.title = task[t].info.title
                                  /\ r.reminded = FALSE]_vars

\* C3: the DELETE of a loan and the INSERT of its log entry are atomic: when
\* no return is between its statements, every key has as many log entries as
\* rows removed.
C3_ReturnAtomic ==
    TasksAtRest(Slots) =>
        \A k \in Keys : Count(deleted, k) = Count(LogKeys, k)

\* C4: a return of a key for which no loan exists answers not-borrowed and
\* changes neither the loans nor the return log.  Stated of main.py's
\* return_book.
C4_ReturnAbsentChangesNothing ==
    [][(reply' # None /\ reply'.op = "return_book"
        /\ ~\E r \in books : r.user_id = reply'.actor /\ r.isbn = reply'.isbn) =>
           /\ books' = books
           /\ books_log' = books_log
           /\ reply'.outcome = "not_borrowed"]_vars

\* C4, of database.py's return_media: a return that finds no loan answers
\* not-borrowed and changes nothing.
C4_ReturnMediaAbsent ==
    [][(reply' # None /\ reply'.op = "return" /\ reply'.outcome # "returned"
        /\ reply'.outcome # "error") =>
           /\ reply'.outcome = "not_borrowed"
           /\ WithKey(media_items, reply'.actor, "book", reply'.arg) = {}
           /\ media_items' = media_items
           /\ rueckgabe_log' = rueckgabe_log]_vars

C6_LimitRejects ==
    [][\A t \in Slots :
         /\ (task[t].pc = "idle" /\ task'[t].pc = "lookup") =>
               Cardinality(get_user_media(media_items, task'[t].user_id))
                  < max_loans_per_user
         /\ (reply' # None /\ reply'.op = "borrow" /\ reply'.outcome = "limit") =>
               /\ Cardinality(get_user_media(media_items, reply'.actor))
                     >= max_loans_per_user
               /\ media_items' = media_items
               /\ rueckgabe_log' = rueckgabe_log
               /\ task' = task]_vars

\* C6 witness: a user holding max_loans_per_user loans has asked for an item
\* that is not among them and got the limit answer.
C6_Witness ==
    /\ reply # None /\ reply.op = "borrow" /\ reply.outcome = "limit"
    /\ Cardinality(get_user_media(media_items, reply.actor)) = max_loans_per_user
    /\ validate_isbn(reply.arg)
    /\ ~\E r \in media_items : r.user_id = reply.actor
                               /\ r.external_id = clean_isbn(reply.arg)

\* C7: a sweep on day today selects exactly the loans with reminded = false
\* and due_date <= today + remind_days_before.
C7_SweepSelectsDue ==
    [][\A l \in Loops :
         (sweep[l].pc = "wait" /\ sweep'[l].pc = "rows") =>
            \A k \in Keys :
               (\E row \in sweep'[l].rows : Key(row) = k) <=>
               (\E r \in media_items : /\ Key(r) = k
                                        /\ r.reminded = FALSE
                                        /\ r.due_date <= today + remind_days_before)]_vars

\* C7 witness: a sweep has just selected a loan whose due date is already
\* past and left out a loan that is due later.
C7_Witness ==
    \E l \in Loops :
       /\ sweep[l].pc = "rows"
       /\ \E row \in sweep[l].rows :
             /\ row.due_date < today
             /\ \E r \in media_items : Key(r) = Key(row) /\ r.due_date = row.due_date
       /\ \E r \in media_items :
             /\ r.due_date > today + remind_days_before
             /\ ~\E row \in sweep[l].rows : Key(row) = Key(r)

\* C8: reminded is set on a loan only after the notification for that loan
\* was delivered: once the sweeps are at rest, every loan marked reminded
\* has had its reminder delivered.
C8_MarkedOnlyAfterDelivery ==
    SweepsAtRest(Loops) =>
        \A r \in media_items : r.reminded => notified[Key(r)] >= 1

\* C9: the mark after a delivered notification changes the reminded flag of
\* the notified loan only; every loan with another key stays as it is.
C9_MarkOnlyNotifiedKey ==
    [][\A l \in Loops :
         (sweep[l].pc = "mark" /\ sweep'[l].pc # "mark") =>
            \A r \in media_items :
               Key(r) # Key(sweep[l].cur) => r \in media_items']_vars

\* C10: a loan receives at most one delivered reminder between two borrows
\* of its key.
C10_AtMostOneReminder ==
    \A k \in Keys : notified[k] <= 1

\* the loan of key k is due for a reminder it has not had
Eligible(k) ==
    \E r \in media_items : /\ Key(r) = k
                            /\ r.reminded = FALSE
                            /\ r.due_date <= today + remind_days_before
                            /\ notified[k] = 0

\* the loan of key k has had its reminder, is gone, or is not yet due again
Settled(k) ==
    \/ ~\E r \in media_items : Key(r) = k
    \/ notified[k] >= 1
    \/ \E r \in media_items : /\ Key(r) = k
                               /\ r.reminded = FALSE
                               /\ r.due_date > today + remind_days_before

\* C11: at least once until acknowledged: a loan that is due for a reminder
\* and has reminded = false gets its reminder delivered, unless it is
\* returned or borrowed again first, when sweeps keep running and the
\* delivery to its borrower succeeds at some time.
C11_EventuallyReminded ==
    \A k \in RemindKeys : Eligible(k) ~> Settled(k)

\* C12: a notification that fails does not end the sweep: the step that
\* handles a row takes exactly that row off the rows still to do and, when the
\* row was not delivered, writes nothing; the iteration ends only when no row
\* is left; and the mark after a delivered row sets reminded on its loan and
\* leaves the rows still to do as they are.
C12_FailureDoesNotAbort ==
    [][\A l \in Loops :
         /\ (sweep[l].pc = "rows" /\ sweep'[l] # sweep[l]) =>
               \E row \in sweep[l].rows :
                  /\ sweep'[l].rows = sweep[l].rows \ {row}
                  /\ \/ sweep'[l].pc = "mark" /\ sweep'[l].cur = row
                     \/ /\ sweep'[l].pc = IF sweep'[l].rows = {} THEN "wait" ELSE "rows"
                        /\ media_items' = media_items
         /\ (sweep[l].pc = "mark" /\ sweep'[l] # sweep[l]) =>
               /\ sweep'[l].rows = sweep[l].rows
               /\ sweep'[l].pc = IF sweep[l].rows = {} THEN "wait" ELSE "rows"
               /\ \E r \in media_items' : Key(r) = Key(sweep[l].cur)
               /\ \A r \in media_items' :
                     Key(r) = Key(sweep[l].cur) => r.reminded]_vars

\* C12 witness: in one iteration a loan's reminder was not delivered (the loan
\* is due, not reminded, not notified and no longer among the rows to do) and
\* the reminder of another loan has been delivered and is about to be marked.
C12_Witness ==
    \E l \in Loops :
       /\ sweep[l].pc = "mark"
       /\ \E r \in media_items :
             /\ Key(r) # Key(sweep[l].cur)
             /\ r.title # sweep[l].cur.title
             /\ Eligible(Key(r))
             /\ ~\E row \in sweep[l].rows : Key(row) = Key(r)

\* C13: the reminder sweep is not re-entrant: at no time are two iterations
\* of remind_due_media in progress, whatever ready events arrive.
C13_SweepNotReentrant ==
    Cardinality({l \in DOMAIN sweep : sweep[l].pc # "wait"}) <= 1

\* the key of the loan the borrow in slot t is about to store
StoreKey(t) == <<task[t].user_id, task[t].media_type, task[t].info.external_id>>

\* C14: reminded is a one-way flag: a loan is created with reminded = false,
\* a borrow that is stored leaves the loan of its key with reminded = false,
\* reminded goes from false to true only in a mark step of the sweep, and
\* from true to false only in the store step of a borrow of the same key.
C14_RemindedOneWay ==
    [][/\ \A r2 \in media_items' :
             (~\E r \in media_items : Key(r) = Key(r2)) => r2.reminded = FALSE
       /\ \A t \in DOMAIN task :
             (/\ task[t].pc = "store" /\ task'[t].pc = "idle"
              /\ reply' # None /\ reply'.outcome = "borrowed") =>
                /\ \E r2 \in media_items' : Key(r2) = StoreKey(t)
                /\ \A r2 \in media_items' :
                      Key(r2) = StoreKey(t) => r2.reminded = FALSE
       /\ \A r \in media_items, r2 \in media_items' :
             Key(r) = Key(r2) =>
                /\ (r.reminded = FALSE /\ r2.reminded = TRUE) =>
                      \E l \in DOMAIN sweep :
                         sweep[l].pc = "mark" /\ sweep'[l].pc # "mark"
                /\ (r.reminded = TRUE /\ r2.reminded = FALSE) =>
                      \E t \in DOMAIN task :
                         /\ task[t].pc = "store" /\ task'[t].pc = "idle"
                         /\ StoreKey(t) = Key(r)]_vars

\* C14 witness: a loan has been reminded and marked, and a borrow of its key
\* is about to store it again.
C14_Witness ==
    \E t \in DOMAIN task :
       /\ task[t].pc = "store"
       /\ \E r \in media_items : /\ Key(r) = StoreKey(t)
                                   /\ r.reminded = TRUE
                                   /\ notified[Key(r)] >= 1

\* the step leaves exactly one loan for key k, with the given title, due
\* due_period_days from today and not reminded, and no other loan changed
StoredAs(k, title) ==
    /\ Cardinality({r \in media_items' : Key(r) = k}) = 1
    /\ \A r \in media_items' :
          Key(r) = k => /\ r.title = title
                        /\ r.due_date = today + due_period_days
                        /\ r.reminded = FALSE
    /\ \A r \in media_items : Key(r) # k => r \in media_items'
    /\ \A r \in media_items' : Key(r) # k => r \in media_items

C16_OneLogPerRemoval ==
    \A k \in Keys : Count(LogKeys, k) <= Count(deleted, k)

(***************************************************************************)
(* The bearer tokens of the APIHandler                                     *)
(***************************************************************************)
\* the step sends a search request of slot t
SendsRequest(t) ==
    /\ search'[t].pc \in {"call", "recall"}
    /\ search'[t].pc # search[t].pc

\* C17: a held token goes into a provider call only while it has not expired.
\* Every search request that carries a token carries one whose expiry time
\* lies ahead; the safety margin is taken at its least, zero, so a request
\* this statement rejects is rejected with any margin.
C17_HeldTokenFresh ==
    [][\A t \in SearchSlots :
         (SendsRequest(t) /\ has_token(search'[t].tok))
            => now < issued'[search'[t].provider][search'[t].tok]]_vars

\* the token requests the step sends to provider p
Exchanged(p) == exchanges'[p] - exchanges[p]

Refreshing(p) == {t \in SearchSlots : /\ search[t].provider = p
                                      /\ search[t].pc \in {"exchange",
                                                           "reexchange"}}

\* C19: at any time at most one token request per provider is in flight
C19_RefreshSerialized ==
    \A p \in Providers : Cardinality(Refreshing(p)) <= 1

\* C20: a token request that fails (the endpoint refuses, or cannot be
\* reached) leaves the held token as it was, ends the search with an error
\* for its caller, and no search request follows it.
C20_ExchangeFailureSurfaced ==
    [][\A t \in SearchSlots :
         (/\ search[t].pc \in {"exchange", "reexchange"}
          /\ search'[t] # search[t]
          /\ http'.status # "200")
            => /\ token' = token
               /\ search'[t].pc = "idle"
               /\ http'.result = "raise"
      ]_vars

\* C21: within one search a 401 is followed by exactly one token request and
\* one retry, the answer to the retry ends the search whatever it is (a second
\* 401 with no results), a search sends at most two search requests, and
\* every search that has started comes to its end.
C21_OneRefreshOneRetry ==
    /\ [](\A t \in SearchSlots : search[t].sent <= 2)
    /\ [][\A t \in SearchSlots :
            LET u == search[t]
                v == search'[t]
            IN  /\ (u.pc = "call" /\ v # u /\ http'.status = "401")
                      => /\ v.pc = "reexchange" /\ v.sent = 1
                         /\ Exchanged(u.provider) = 1
                /\ (u.pc = "reexchange" /\ v # u)
                      => /\ Exchanged(u.provider) = 0
                         /\ \/ v.pc = "recall" /\ v.sent = 2
                            \/ v.pc = "idle" /\ http'.status = "raise"
                /\ (u.pc = "recall" /\ v # u)
                      => /\ Exchanged(u.provider) = 0
                         /\ v.pc = "idle"
                         /\ http'.status = "401" => http'.result = "none"
       ]_vars
    /\ \A t \in SearchSlots : (search[t].pc # "idle") ~> (search[t].pc = "idle")

\* C21 witness: the retry of a search has been answered 401 and the search
\* has ended with no results.
C21_Witness ==
    /\ http # None
    /\ http.from = "api" /\ http.status = "401" /\ http.result = "none"
    /\ \E p \in Providers : exchanges[p] >= 1

\* C22: no failure of a provider or of the network leaves a search as an
\* exception: a search that fails ends with no candidates.
C22_FailuresBecomeNoCandidates ==
    (http # None /\ http.result # "") => http.result \in {"results", "none"}

(***************************************************************************)
(* Results of the searches                                                 *)
(***************************************************************************)
\* C23: a search returns at most 5 records whatever the provider answers
\* with, and the selection menu offers at most 5 options.
C23_AtMostFiveRecords ==
    returned # None /\ returned.fn \in {"search_music", "search_movies",
                                        "show_media_selection"}
        => Len(returned.value) <= 5

\* C24: for music_cd and vinyl MusicBrainz is asked exactly once when
\* Spotify has returned no candidate, and its candidates are the result if
\* there are any; it is not asked when Spotify has returned a candidate, and
\* never for a song.  Spotify is asked once, first.
C24_FallbackOnlyWhenEmpty ==
    (returned # None /\ returned.fn = "lookup_music") =>
        LET a == returned.arg
            album == a.media_type \in {"music_cd", "vinyl"}
            none == a.primary.none \/ Len(a.primary.list) = 0
        IN  /\ Count(request, "spotify") = 1 /\ request[1] = "spotify"
            /\ (album /\ none)
                  => /\ Count(request, "musicbrainz") = 1
                     /\ (~a.fallback.none /\ Len(a.fallback.list) > 0)
                           => returned.value = a.fallback
            /\ (album /\ ~none)
                  => /\ Count(request, "musicbrainz") = 0
                     /\ returned.value = a.primary
            /\ ~album
                  => /\ Count(request, "musicbrainz") = 0
                     /\ returned.value = a.primary

\* C24 witness: Spotify has returned an empty list for a vinyl, MusicBrainz
\* was asked and its candidates are the result.
C24_Witness ==
    /\ returned # None /\ returned.fn = "lookup_music"
    /\ returned.arg.media_type = "vinyl"
    /\ returned.arg.primary = List(<<>>)
    /\ request = <<"spotify", "musicbrainz">>
    /\ ~returned.value.none /\ Len(returned.value.list) > 0

(***************************************************************************)
(* Validation of the ISBN                                                  *)
(***************************************************************************)
\* the inputs of the model's borrow commands that are no ISBN
MalformedInputs == {IsbnShort}

\* the borrow in slot t is a book borrow with a malformed identifier
Malformed(t) ==
    /\ task[t].op = "borrow" /\ task[t].media_type = "book"
    /\ task[t].arg \in MalformedInputs

\* C25, as stated: a book borrow whose identifier fails validation ends with
\* the validation error.
C25_InvalidEndsInValidationError ==
    (reply # None /\ reply.op = "borrow" /\ reply.arg \in MalformedInputs)
        => reply.outcome = "invalid_isbn"

\* C25, amended: a book borrow whose identifier fails validation never gets
\* to the provider lookup's outcome (a volume to store, or not found) and
\* writes nothing: past the limit check it ends in the step that validates,
\* with the validation error; a user at the loan limit gets the limit message
\* instead, before the identifier is looked at.
C25_ValidationBeforeLookup ==
    /\ [](\A t \in DOMAIN task : Malformed(t) => task[t].pc = "lookup")
    /\ [][/\ (reply' # None /\ reply'.op = "borrow"
                            /\ reply'.arg \in MalformedInputs)
                => /\ reply'.outcome \in {"invalid_isbn", "limit"}
                   /\ media_items' = media_items
                   /\ rueckgabe_log' = rueckgabe_log
                   /\ reply'.outcome = "limit"
                         => ~check_loan_limit(media_items, reply'.actor)
          /\ \A t \in DOMAIN task :
                (Malformed(t) /\ task'[t] # task[t])
                   => /\ reply' = Msg(task[t], "invalid_isbn", "")
                      /\ task'[t] = IdleTask
                      /\ media_items' = media_items
                      /\ rueckgabe_log' = rueckgabe_log
       ]_vars

\* C25 witness: a user with a loan has asked for a malformed identifier and
\* got the validation error.
C25_Witness ==
    /\ reply # None /\ reply.op = "borrow" /\ reply.outcome = "invalid_isbn"
    /\ reply.arg \in MalformedInputs
    /\ ~validate_isbn(reply.arg)
    /\ \E r \in media_items : r.user_id = reply.actor

\* the value of a digit character, and of the check character X
DigitValue(c) ==
    IF c = "X" THEN 10
    ELSE CHOOSE n \in 0..9 : <<"0", "1", "2", "3", "4", "5", "6", "7", "8", "9">>[n + 1] = c

\* the sum of weight(i) * value of s[i] over the positions i..Len(s)
RECURSIVE Sum10(_, _)
Sum10(s, i) ==
    IF i > Len(s) THEN 0 ELSE (11 - i) * DigitValue(s[i]) + Sum10(s, i + 1)

RECURSIVE Sum13(_, _)
Sum13(s, i) ==
    IF i > Len(s) THEN 0
    ELSE (IF i % 2 = 1 THEN 1 ELSE 3) * DigitValue(s[i]) + Sum13(s, i + 1)

\* ISBN-10: nine digits and a check character, a digit or X, weighted sum
\* divisible by 11
Isbn10Ok(s) ==
    /\ Len(s) = 10
    /\ \A i \in 1..9 : s[i] \in Digits
    /\ s[10] \in Digits \cup {"X"}
    /\ Sum10(s, 1) % 11 = 0

\* ISBN-13: thirteen digits, sum with weights 1 and 3 divisible by 10
Isbn13Ok(s) ==
    /\ Len(s) = 13
    /\ \A i \in 1..13 : s[i] \in Digits
    /\ Sum13(s, 1) % 10 = 0

WellFormedIsbn(isbn) == Isbn10Ok(clean_isbn(isbn)) \/ Isbn13Ok(clean_isbn(isbn))

\* C26: the validator accepts every well-formed ISBN, the ISBN-10 with the
\* check character X included.
C26_AcceptsWellFormed ==
    (returned # None /\ returned.fn = "validate_isbn"
                     /\ WellFormedIsbn(returned.arg))
        => returned.value = TRUE

\* C27: the validator rejects every identifier that is not a well-formed
\* ISBN: wrong length, a character that is no digit, or a valid ISBN with one
\* digit changed.
C27_RejectsMalformed ==
    (returned # None /\ returned.fn = "validate_isbn"
                     /\ ~WellFormedIsbn(returned.arg))
        => returned.value = FALSE

(***************************************************************************)
(* The list of a user's loans                                              *)
(***************************************************************************)
\* C28: get_user_media(user, kind) returns one row for each loan of the user
\* (of the kind, when one is given) and for no other loan, each loan once,
\* with due dates ascending.
C28_ListExactAndOrdered ==
    [][(returned' # returned /\ returned'.fn = "get_user_media") =>
          LET a == returned'.arg
              rows == returned'.value
              loans == {r \in media_items :
                          /\ r.user_id = a.user_id
                          /\ a.media_type \in {"book", "movie"}
                                => r.media_type = a.media_type}
          IN  /\ Len(rows) = Cardinality(loans)
              /\ \E f \in [1..Len(rows) -> loans] :
                    /\ \A i, j \in 1..Len(rows) : f[i] = f[j] => i = j
                    /\ \A i \in 1..Len(rows) :
                          /\ rows[i].title = f[i].title
                          /\ rows[i].due_date = f[i].due_date
                          /\ rows[i].media_type = f[i].media_type
              /\ \A i \in 1..Len(rows) : \A j \in 1..Len(rows) :
                    i < j => rows[i].due_date <= rows[j].due_date
      ]_vars

\* C28 witness: the list of a user with a movie borrowed before a book, while
\* another user holds a loan too: two rows, the earlier due date first.
C28_Witness ==
    /\ returned # None /\ returned.fn = "get_user_media"
    /\ returned.arg.media_type = ""
    /\ Len(returned.value) = 2
    /\ returned.value[1].due_date < returned.value[2].due_date
    /\ returned.value[1].media_type # returned.value[2].media_type
    /\ \E r \in media_items : r.user_id # returned.arg.user_id

(***************************************************************************)
(* Frame conditions                                                        *)
(***************************************************************************)
\* r2 is the loan r, up to its reminded flag
SameLoan(r, r2) == r2 = [r EXCEPT !.reminded = r2.reminded]

\* C29: a step of a reminder sweep writes nothing but reminded flags: the
\* return log stays as it is, every loan is there before and after with the
\* same key, title and due date, and no flag goes back to false.
C29_SweepWritesOnlyFlags ==
    [][(\E l \in DOMAIN sweep : sweep'[l] # sweep[l]) =>
          /\ rueckgabe_log' = rueckgabe_log
          /\ Cardinality(media_items') = Cardinality(media_items)
          /\ \A r \in media_items :
                \E r2 \in media_items' :
                   SameLoan(r, r2) /\ (r.reminded => r2.reminded)
          /\ \A r2 \in media_items' :
                \E r \in media_items : SameLoan(r, r2)
      ]_vars

\* C29 witness: a sweep has sent a reminder and marked the loan, while the
\* log holds an entry and the user holds a second loan that is not marked.
C29_Witness ==
    /\ rueckgabe_log # <<>>
    /\ \E r \in media_items :
          /\ r.reminded = TRUE /\ notified[Key(r)] >= 1
          /\ \E r2 \in media_items : r2.user_id = r.user_id /\ r2.reminded = FALSE
    /\ \E l \in DOMAIN sweep : l <= loops /\ sweep[l].pc = "wait"

\* the loans of user b, and the entries of the return log about user b
LoansOf(items, b) == {r \in items : r.user_id = b}
LogOf(log, b) == SelectSeq(log, LAMBDA e : e.user_id = b)

\* the step leaves the loans and the log entries of every user but a alone
OthersUntouched(a) ==
    \A b \in Users \ {a} :
        /\ LoansOf(media_items', b) = LoansOf(media_items, b)
        /\ LogOf(rueckgabe_log', b) = LogOf(rueckgabe_log, b)

\* C30: every step of a borrow or a return of user A, whether the handler
\* ends with success, with a refusal or with an error, leaves the loans of
\* every other user as they are and adds no log entry about another user.
C30_OtherUsersUntouched ==
    [][/\ \A t \in DOMAIN task :
             LET tk == IF task[t].op = "idle" THEN task'[t] ELSE task[t]
             IN  (task'[t] # task[t] /\ tk.op \in {"borrow", "return"})
                    => OthersUntouched(tk.actor)
       /\ (reply' # None /\ reply'.op \in {"borrow", "return"})
             => OthersUntouched(reply'.actor)
      ]_vars

\* C30 witness: a user has returned a book while the other user holds a
\* loan of the same book.
C30_Witness ==
    /\ reply # None /\ reply.op = "return" /\ reply.outcome = "returned"
    /\ \E r \in media_items : /\ r.user_id # reply.actor
                                /\ r.media_type = "book"
                                /\ r.external_id = reply.arg
    /\ \E i \in 1..Len(rueckgabe_log) : rueckgabe_log[i].user_id = reply.actor

(***************************************************************************)
(* Provider secrets                                                        *)
(***************************************************************************)
\* C31: when a secret a provider's search needs is missing from the
\* configuration, the search sends no request to the provider, returns no
\* candidates and raises nothing, and the step of the borrow that runs it
\* ends the handler without an error and writes neither a loan nor a log
\* entry.
C31_MissingSecretDisables ==
    [][\A t \in DOMAIN task :
         (/\ task[t].pc = "lookup" /\ task[t].media_type \in SearchKinds
          /\ task'[t] # task[t]
          /\ \E s \in RequiredSecrets(returned'.arg.provider) :
                s \notin returned'.arg.cfg)
            => /\ returned'.arg.provider = ProviderOf(task[t].media_type)
               /\ Count(request', returned'.arg.provider) = 0
               /\ returned'.value = NoList
               /\ reply' = None \/ reply'.outcome # "error"
               /\ task'[t] = IdleTask
               /\ media_items' = media_items
               /\ rueckgabe_log' = rueckgabe_log
      ]_vars

\* C31 witness: the user holds a loan, the configuration has the client id of
\* IGDB but not its secret, and a video game borrow has ended with no request
\* sent.
C31_Witness ==
    /\ returned # None /\ returned.fn = "search"
    /\ returned.arg.media_type = "video_game"
    /\ "igdb_id" \in returned.arg.cfg /\ "igdb_secret" \notin returned.arg.cfg
    /\ request = <<>> /\ returned.value = NoList
    /\ media_items # {}
    /\ TasksAtRest(Slots)

(***************************************************************************)
(* The loan limit                                                          *)
(***************************************************************************)
\* C32: in every reachable state no user holds more than max_loans_per_user
\* loans, whatever borrow requests and selection menus of the user are
\* pending.
C32_LoansWithinLimit ==
    \A u \in Users :
        Cardinality(get_user_media(media_items, u)) <= max_loans_per_user

(***************************************************************************)
(* The reminded flag and the due cycle of a loan                           *)
(***************************************************************************)
\* C33: at every time, sweeps in progress included, a loan with reminded =
\* true has had a reminder delivered for its own key since the last borrow of
\* that key.
C33_RemindedMeansNotified ==
    \A r \in media_items : r.reminded = TRUE => notified[Key(r)] >= 1

(***************************************************************************)
(* Forced return                                                           *)
(***************************************************************************)
\* C34: a forced return removes the loan it found and appends one log entry:
\* once its first return_media call has handed back the loan, no later step of
\* the forced return removes a loan or appends a log entry, whatever the user
\* has borrowed in the meantime.
C34_ForcedReturnRemovesOnce ==
    [][\A t \in DOMAIN task :
         (task[t].op = "force" /\ task[t].result # None /\ task'[t] # task[t])
            => /\ media_items' = media_items
               /\ rueckgabe_log' = rueckgabe_log
      ]_vars

(***************************************************************************)
(* The answer to a borrow request                                          *)
(***************************************************************************)
\* C35: the step that ends a borrow request sends a message to the
\* requester: a success, a selection menu or an error, whatever the lookup
\* has come to.
C35_EveryBorrowAnswered ==
    [][\A t \in DOMAIN task :
         (task[t].op = "borrow" /\ task[t].pc # "idle" /\ task'[t].pc = "idle")
            => /\ reply' # None
               /\ reply'.op = "borrow" /\ reply'.actor = task[t].actor
      ]_vars

\* the user holds max_loans_per_user loans or more, of whatever keys
AtLimit(u) ==
    Cardinality({r \in media_items : r.user_id = u}) >= max_loans_per_user

\* C36: the limit check comes first and counts every loan of the user: a
\* borrow request gets to its lookup only when the user holds fewer than
\* max_loans_per_user loans, and a request that arrives when the user is at
\* the limit, for a key the user holds or for another, gets the limit answer
\* in the same step, with no lookup started and nothing written.
C36_LimitBeforeLookup ==
    [][/\ \A t \in DOMAIN task :
             (task[t].pc = "idle" /\ task'[t].op = "borrow")
                => /\ task'[t].pc = "lookup"
                   /\ ~AtLimit(task'[t].user_id)
       /\ (/\ reply' # None /\ reply'.op = "borrow"
           /\ TasksAtRest(DOMAIN task) /\ AtLimit(reply'.actor))
             => /\ reply'.outcome = "limit"
                /\ task' = task
                /\ media_items' = media_items
                /\ rueckgabe_log' = rueckgabe_log
                /\ menus' = menus
      ]_vars

\* C36 witness: a user holding max_loans_per_user loans has asked again for a
\* book that is among them and got the limit answer.
C36_Witness ==
    /\ reply # None /\ reply.op = "borrow" /\ reply.outcome = "limit"
    /\ AtLimit(reply.actor)
    /\ \E r \in media_items : /\ r.user_id = reply.actor
                               /\ r.media_type = "book"
                               /\ r.external_id = clean_isbn(reply.arg)
    /\ TasksAtRest(DOMAIN task)

(***************************************************************************)
(* The selection menu                                                      *)
(***************************************************************************)
\* menu m of user u offers a candidate with the key and title of loan r
Offers(m, u, r) ==
    /\ m.owner = u /\ m.media_type = r.media_type
    /\ \E i \in 1..Len(first5(m.results)) :
          /\ first5(m.results)[i].external_id = r.external_id
          /\ first5(m.results)[i].title = r.title

\* C37: a selection in a menu writes a loan only for the user who made it,
\* only when a menu of that user's own request is up, and only for a
\* candidate that menu offers; the selection of a user in another user's menu
\* is refused and changes no loan.
C37_MenuOnlyForRequester ==
    [][(reply' # None /\ reply'.op = "select") =>
          /\ rueckgabe_log' = rueckgabe_log
          /\ (~\E m \in menus : m.owner = reply'.actor)
                => /\ media_items' = media_items
                   /\ reply'.outcome = "not_yours"
          /\ \A r \in media_items \ media_items' : r.user_id = reply'.actor
          /\ \A r2 \in media_items' \ media_items :
                /\ r2.user_id = reply'.actor
                /\ r2.external_id = reply'.arg
                /\ \E m \in menus : Offers(m, reply'.actor, r2)
      ]_vars

\* C37 witness: user 1 has borrowed a film from the menu of their request,
\* and user 2 has then made a selection in that menu and was refused.
C37_Witness ==
    /\ reply # None /\ reply.op = "select" /\ reply.outcome = "not_yours"
    /\ \E m \in menus : m.owner # reply.actor
    /\ \E r \in media_items : r.media_type = "movie" /\ r.user_id # reply.actor
    /\ ~\E r \in media_items : r.user_id = reply.actor

(***************************************************************************)
(* The ISBN at borrow and at return                                        *)
(***************************************************************************)
\* the digits of a string, in their order
DigitsOf(s) == SelectSeq(s, LAMBDA c : c \in Digits)

\* C38: a book is stored under the digits of the ISBN typed at the borrow,
\* and a return looks for the digits of the ISBN typed at the return: a
\* return of a book the user holds, in whatever hyphenation it is typed,
\* finds the loan, and its delete removes it.
C38_SameNormalisation ==
    [][/\ (reply' # None /\ reply'.op = "borrow" /\ reply'.outcome = "borrowed")
             => \E r \in media_items' :
                   /\ r.user_id = reply'.actor /\ r.media_type = "book"
                   /\ r.external_id = DigitsOf(reply'.arg)
       /\ \A t \in DOMAIN task :
             LET tk == IF task'[t].op = "return" THEN task'[t] ELSE task[t]
                 held == \E r \in media_items :
                            /\ r.user_id = tk.user_id /\ r.media_type = "book"
                            /\ r.external_id = tk.arg
             IN  /\ (task[t].pc = "idle" /\ task'[t].op = "return")
                       => /\ \E q \in HyphenReturnInputs : tk.arg = DigitsOf(q)
                          /\ held /\ task'[t].pc = "delete"
                 /\ (task[t].op = "return" /\ task[t].pc = "delete"
                                         /\ task'[t].pc = "insert")
                       => /\ held
                          /\ ~\E r \in media_items' :
                                /\ r.user_id = tk.user_id /\ r.media_type = "book"
                                /\ r.external_id = tk.arg
       /\ (reply' # None /\ reply'.op = "return"
                         /\ reply'.outcome = "not_borrowed")
             => /\ \E q \in HyphenReturnInputs : reply'.arg = DigitsOf(q)
                /\ ~\E r \in media_items :
                      /\ r.user_id = reply'.actor /\ r.media_type = "book"
                      /\ r.external_id = reply'.arg
      ]_vars

\* C38 witness: the book was borrowed with hyphens (every borrow input for it
\* has them) and a return has found and removed the loan and logged it, while
\* the other book of the user is still on loan.
C38_Witness ==
    /\ reply # None /\ reply.op = "return" /\ reply.outcome = "returned"
    /\ reply.arg = IsbnA /\ reply.arg \notin HyphenBorrowInputs
    /\ \E i \in 1..Len(rueckgabe_log) : rueckgabe_log[i].external_id = IsbnA
    /\ ~\E r \in media_items : r.external_id = IsbnA
    /\ \E r \in media_items : r.external_id = IsbnB

(***************************************************************************)
(* The return log against the history of the ledger                        *)
(***************************************************************************)
\* C39: no step removes or changes an entry of the return log, and in every
\* reachable state every key has as many log entries as loans of that key
\* were removed.
C39_LogMatchesRemovals ==
    /\ [][/\ Len(rueckgabe_log') >= Len(rueckgabe_log)
          /\ SubSeq(rueckgabe_log', 1, Len(rueckgabe_log)) = rueckgabe_log]_vars
    /\ [](\A k \in Keys : Count(LogKeys, k) = Count(deleted, k))

====
